---- MODULE Spec2Model ----
(***************************************************************************)
(* Model of generate_apps.py: the folder-name parser, the data-file        *)
(* lookup, the topic-count detection, generate_app and generate_all_apps.  *)
(*                                                                         *)
(* Strings are sequences of one-character strings, so that the regular     *)
(* expression of parse_folder_name, str.replace and int() are computed     *)
(* character by character.                                                 *)
(***************************************************************************)
EXTENDS Integers, Sequences, FiniteSets, TLC

VARIABLES
    source_dir,   \* the entries of the source directory: a set of folder records
    pc,           \* position of generate_all_apps: "idle", "loop", "done", "raised"
    todo,         \* generate_all_apps: the sorted entries still to visit
    visited,      \* generate_all_apps: the entries visited so far, with their outcome
    generated,    \* generate_all_apps: the list `generated`
    printed,      \* the per-folder error messages printed by generate_all_apps
    out_fs,       \* the output directories written so far: path -> app contents
    call          \* the last direct call of a function: operation, arguments, result

vars == <<source_dir, pc, todo, visited, generated, printed, out_fs, call>>

(***************************************************************************)
(* Bounds of the model.                                                    *)
(***************************************************************************)
MaxCount == 12      \* largest topic count written in a folder name
MaxZeros == 1       \* most leading zeros of a count literal
MaxKeys == 3        \* largest size of a JSON mapping, array or string
MaxFolders == 2     \* most entries of the source directory
MaxTopics == 100    \* largest topic count given to generate_charts_js

(***************************************************************************)
(* Characters and the literals of the naming convention.                   *)
(***************************************************************************)
LF == "\n"

DigitChars == <<"0", "1", "2", "3", "4", "5", "6", "7", "8", "9">>

IsDigit(c) == \E i \in 1..Len(DigitChars) : DigitChars[i] = c

DigitValue(c) == (CHOOSE i \in 1..Len(DigitChars) : DigitChars[i] = c) - 1

WITH_PAGERANK == <<"_", "w", "i", "t", "h", "_", "p", "a", "g", "e", "r", "a", "n", "k", "_">>

BPE == <<"_", "b", "p", "e", "_">>

NMTF == <<"n", "m", "t", "f">>

PNMF == <<"p", "n", "m", "f">>

\* the alternation (nmtf|pnmf), in the order the pattern lists it
MethodAlternatives == <<NMTF, PNMF>>

\* s has the literal lit at position p (1-based)
HasAt(s, p, lit) ==
    /\ p >= 1
    /\ p + Len(lit) - 1 <= Len(s)
    /\ \A k \in 1..Len(lit) : s[p + k - 1] = lit[k]

\* a mutation of DotMatches: the first group written as ([^_]+)
DotMatches_no_underscore(c) == c # LF /\ c # "_"

\* "." of the pattern: any character except a line feed
DotMatches(c) == c # LF

\* "$" of the pattern at position p (the next character to consume): the end
\* of the string, or just before a line feed that ends the string
DollarMatches(s, p) ==
    \/ p = Len(s) + 1
    \/ p = Len(s) /\ s[p] = LF

\* int() of a string of decimal digits
RECURSIVE IntOf(_)
IntOf(ds) ==
    IF ds = <<>> THEN 0
    ELSE 10 * IntOf(SubSeq(ds, 1, Len(ds) - 1)) + DigitValue(ds[Len(ds)])

\* str() of a natural number
RECURSIVE StrOf(_)
StrOf(n) ==
    IF n < 10 THEN <<DigitChars[n + 1]>>
    ELSE StrOf(n \div 10) \o <<DigitChars[(n % 10) + 1]>>

NoneValue == [tag |-> "None"]

(***************************************************************************)
(* parse_folder_name: re.match of                                          *)
(*   ^(.+)_with_pagerank_(nmtf|pnmf)_bpe_(\d+)$                            *)
(***************************************************************************)
\* the ends e of group 3, (\d+) starting at p, after which "$" matches
CountEnds(s, p) ==
    { e \in p..Len(s) :
        /\ \A k \in p..e : IsDigit(s[k])
        /\ DollarMatches(s, e + 1) }

\* the alternatives of group 2 that match at position p and let the rest match
MethodMatches(s, p) ==
    { a \in 1..Len(MethodAlternatives) :
        /\ HasAt(s, p, MethodAlternatives[a])
        /\ HasAt(s, p + Len(MethodAlternatives[a]), BPE)
        /\ CountEnds(s, p + Len(MethodAlternatives[a]) + Len(BPE)) # {} }

\* the ends i of group 1, (.+), after which the rest of the pattern matches
DatasetEnds(s) ==
    { i \in 1..Len(s) :
        /\ HasAt(s, i + 1, WITH_PAGERANK)
        /\ \A k \in 1..i : DotMatches(s[k])
        /\ MethodMatches(s, i + 1 + Len(WITH_PAGERANK)) # {} }

Greatest(S) == CHOOSE x \in S : \A y \in S : y <= x

Least(S) == CHOOSE x \in S : \A y \in S : x <= y

\* groups are greedy: the longest group 1, the first alternative, the longest group 3
parse_folder_name(folder_name) ==
    IF DatasetEnds(folder_name) = {} THEN NoneValue
    ELSE
        LET i == Greatest(DatasetEnds(folder_name))
            p == i + 1 + Len(WITH_PAGERANK)
            a == Least(MethodMatches(folder_name, p))
            q == p + Len(MethodAlternatives[a]) + Len(BPE)
            e == Greatest(CountEnds(folder_name, q))
        IN  [tag |-> "dict",
             dataset |-> SubSeq(folder_name, 1, i),
             method |-> MethodAlternatives[a],
             topic_count |-> IntOf(SubSeq(folder_name, q, e))]

(***************************************************************************)
(* Folder names the parser is applied to, built from their parts.          *)
(***************************************************************************)
HEART_FAILURE == <<"h", "e", "a", "r", "t", "_", "f", "a", "i", "l", "u", "r", "e">>

LDA == <<"l", "d", "a">>

\* the topic count of the documented example folder name
ExampleCount == 34

DatasetParts ==
    { <<>>,
      <<"a">>,
      HEART_FAILURE,
      <<"a">> \o WITH_PAGERANK \o NMTF \o BPE \o <<"1">>,
      <<"x">> \o BPE \o <<"2">>,
      <<"a", LF, "b">> }

SeparatorParts == { WITH_PAGERANK, <<"_">> }

MethodParts == { NMTF, PNMF, LDA }

Zeros(z) == [k \in 1..z |-> "0"]

\* a count literal: z leading zeros and the decimal digits of v
CountLiterals ==
    { [literal |-> TRUE, text |-> Zeros(z) \o StrOf(v), value |-> v] :
        z \in 0..MaxZeros, v \in (0..MaxCount) \cup {ExampleCount} }

CountParts ==
    CountLiterals \cup
    { [literal |-> FALSE, text |-> <<>>, value |-> 0],
      [literal |-> FALSE, text |-> <<"3", "a">>, value |-> 0] }

TailParts == { <<>>, <<LF>> }

NameParts ==
    [d : DatasetParts, sep : SeparatorParts, m : MethodParts, n : CountParts,
     tail : TailParts]

NameOf(parts) == parts.d \o parts.sep \o parts.m \o BPE \o parts.n.text \o parts.tail

\* the name is <d>_with_pagerank_<nmtf|pnmf>_bpe_<count literal>, by construction
WellFormed(parts) ==
    /\ parts.sep = WITH_PAGERANK
    /\ parts.m \in {NMTF, PNMF}
    /\ parts.n.literal
    /\ parts.tail = <<>>

(***************************************************************************)
(* JSON values, as far as `in`, indexing by a string and len() see them.   *)
(*   kind : "object", "array", "string", "number", "null" or "absent"      *)
(*   size : the number of keys, elements or characters                     *)
(* A container also says which of the probed keys it holds (an object as   *)
(* keys, an array as elements, a string as substrings).                    *)
(***************************************************************************)
ContainerKinds == {"object", "array", "string"}

ScalarKinds == {"number", "null"}

Absent == [kind |-> "absent", size |-> 0]

\* the values of `relevance` and of `c_v_per_topic`
LeafValues ==
    [kind : ContainerKinds, size : 0..MaxKeys] \cup [kind : ScalarKinds, size : {0}]

\* the values of `gensim`
GensimValues ==
    { [kind |-> "object", has_cv |-> TRUE, cv |-> v] : v \in LeafValues }
    \cup [kind : ContainerKinds, has_cv : {FALSE}, cv : {Absent}]
    \cup [kind : {"array", "string"}, has_cv : {TRUE}, cv : {Absent}]
    \cup [kind : ScalarKinds, has_cv : {FALSE}, cv : {Absent}]

NoGensim == [kind |-> "absent", has_cv |-> FALSE, cv |-> Absent]

\* the loaded documents: JSON objects, and documents that are no objects
Documents ==
    [kind : {"object"},
     has_relevance : {TRUE}, relevance : LeafValues,
     has_gensim : BOOLEAN, gensim : GensimValues]
    \cup
    [kind : {"object"},
     has_relevance : {FALSE}, relevance : {Absent},
     has_gensim : BOOLEAN, gensim : GensimValues]
    \cup
    [kind : {"array", "string"},
     has_relevance : BOOLEAN, relevance : {Absent},
     has_gensim : BOOLEAN, gensim : {NoGensim}]
    \cup
    [kind : ScalarKinds,
     has_relevance : {FALSE}, relevance : {Absent},
     has_gensim : {FALSE}, gensim : {NoGensim}]

Returned(v) == [raises |-> "none", value |-> v]

Raised(e) == [raises |-> e, value |-> 0]

\* len(v)
PyLen(v) ==
    IF v.kind \in ContainerKinds THEN Returned(v.size) ELSE Raised("TypeError")

(***************************************************************************)
(* get_topic_count                                                         *)
(***************************************************************************)
\* the second probe: 'gensim' in data and 'c_v_per_topic' in data['gensim']
GensimCount(data) ==
    IF ~data.has_gensim THEN Returned(0)
    ELSE IF data.kind # "object" THEN Raised("TypeError")        \* data['gensim']
    ELSE IF data.gensim.kind \notin ContainerKinds THEN Raised("TypeError")  \* in
    ELSE IF ~data.gensim.has_cv THEN Returned(0)
    ELSE IF data.gensim.kind # "object" THEN Raised("TypeError") \* ['c_v_per_topic']
    ELSE PyLen(data.gensim.cv)

\* a mutation of get_topic_count: the two probes in the other order
get_topic_count_gensim_first(data) ==
    IF data.kind \notin ContainerKinds THEN Raised("TypeError")
    ELSE IF data.has_gensim /\ data.kind = "object" /\ data.gensim.kind = "object"
            /\ data.gensim.has_cv
    THEN PyLen(data.gensim.cv)
    ELSE IF data.has_relevance /\ data.kind = "object" THEN PyLen(data.relevance)
    ELSE Returned(0)

\* a mutation of get_topic_count: `if data.get('relevance')`, so that an
\* empty relevance mapping falls through to the second probe
get_topic_count_relevance_if_not_empty(data) ==
    IF data.kind \notin ContainerKinds THEN Raised("TypeError")
    ELSE IF data.has_relevance /\ data.kind = "object" /\ data.relevance.size > 0
    THEN PyLen(data.relevance)
    ELSE GensimCount(data)

\* a mutation of get_topic_count: only the first shape is probed
get_topic_count_relevance_only(data) ==
    IF data.kind \notin ContainerKinds THEN Raised("TypeError")
    ELSE IF data.has_relevance
    THEN IF data.kind # "object" THEN Raised("TypeError") ELSE PyLen(data.relevance)
    ELSE Returned(0)

get_topic_count(data) ==
    IF data.kind \notin ContainerKinds THEN Raised("TypeError")  \* 'relevance' in data
    ELSE IF data.has_relevance
    THEN IF data.kind # "object" THEN Raised("TypeError")        \* data['relevance']
         ELSE PyLen(data.relevance)
    ELSE GensimCount(data)

(***************************************************************************)
(* The source directory.  An entry is a folder (or a plain file) with a    *)
(* name; the files of a folder are named <prefix>_<artifact>, and the      *)
(* model keeps those whose prefix is the folder's own name (own) and those *)
(* whose prefix is OtherPrefix (other).                                    *)
(***************************************************************************)
NoFile == [kind |-> "nofile"]

NoFiles == [coherence_scores |-> NoFile, relevance_top_words |-> NoFile]

OtherPrefix == <<"r", "u", "n">>

FilesWithPrefix(folder, prefix) ==
    IF ~folder.is_dir THEN NoFiles
    ELSE IF prefix = folder.name THEN folder.own
    ELSE IF prefix = OtherPrefix THEN folder.other
    ELSE NoFiles

\* Path.exists()
Exists(file) == file # NoFile

(***************************************************************************)
(* find_data_file                                                          *)
(***************************************************************************)
\* a mutation of find_data_file: relevance_top_words.json is tried first
find_data_file_relevance_first(folder, prefix) ==
    IF Exists(FilesWithPrefix(folder, prefix).relevance_top_words)
    THEN "relevance_top_words"
    ELSE IF Exists(FilesWithPrefix(folder, prefix).coherence_scores)
    THEN "coherence_scores"
    ELSE "None"

\* a mutation of find_data_file: a file with any known prefix is accepted
find_data_file_other_prefix(folder, prefix) ==
    IF Exists(FilesWithPrefix(folder, prefix).coherence_scores)
    THEN "coherence_scores"
    ELSE IF Exists(FilesWithPrefix(folder, prefix).relevance_top_words)
    THEN "relevance_top_words"
    ELSE IF folder.is_dir /\ Exists(folder.other.coherence_scores)
    THEN "coherence_scores"
    ELSE "None"

find_data_file(folder, prefix) ==
    IF Exists(FilesWithPrefix(folder, prefix).coherence_scores)
    THEN "coherence_scores"
    ELSE IF Exists(FilesWithPrefix(folder, prefix).relevance_top_words)
    THEN "relevance_top_words"
    ELSE "None"

\* load_topic_data: the document of the file find_data_file returned
load_topic_data(folder, prefix, data_file) == FilesWithPrefix(folder, prefix)[data_file]

(***************************************************************************)
(* generate_output_dir_name                                                *)
(***************************************************************************)
\* str.replace(old, new) for single characters
Replace(s, old, new) == [k \in 1..Len(s) |-> IF s[k] = old THEN new ELSE s[k]]

\* a mutation of generate_output_dir_name: the dataset is used as it is
generate_output_dir_name_keeps_underscores(metadata) ==
    metadata.dataset \o <<"-">> \o metadata.method \o <<"-">> \o StrOf(metadata.topic_count)

\* f"{dataset}-{metadata['method']}-{metadata['topic_count']}"
generate_output_dir_name(metadata) ==
    Replace(metadata.dataset, "_", "-") \o <<"-">> \o metadata.method
        \o <<"-">> \o StrOf(metadata.topic_count)

(***************************************************************************)
(* generate_app                                                            *)
(***************************************************************************)
\* an optional string argument: None, or a string
NoArg == [given |-> FALSE, text |-> <<>>]

Arg(text) == [given |-> TRUE, text |-> text]

\* truth value of an optional string: None and "" are false
Truthy(arg) == arg.given /\ arg.text # <<>>

NoApp == [written |-> FALSE]

\* a call that raised e before anything was written
Failed(e, metadata, prefix, data_file) ==
    [raises |-> e, value |-> <<>>, metadata |-> metadata, prefix |-> prefix,
     data_file |-> data_file, topic_count |-> 0, app |-> NoApp]

(***************************************************************************)
(* The other files of a source folder.  A file is named by the prefix it   *)
(* carries ("own": the folder's name, "other": OtherPrefix, "": none,      *)
(* "wordclouds/": a member of the wordclouds sub-folder) and the rest of   *)
(* its name; a file's content is taken to be the file itself.              *)
(***************************************************************************)
File(prefix, rest) == [prefix |-> prefix, rest |-> rest]

\* source_path / "<rest>"
Loose(rest) == File("", rest)

PrefixKey(folder, prefix) ==
    IF prefix = folder.name THEN "own"
    ELSE IF prefix = OtherPrefix THEN "other"
    ELSE "unknown"

\* source_path / f"{prefix}<rest>"
SourceFile(folder, prefix, rest) == File(PrefixKey(folder, prefix), rest)

\* a mutation of PathExists: every optional source is taken to be there
PathExists_always(folder, file) == TRUE

\* src.exists()
PathExists(folder, file) == file \in folder.files

\* the `if src.exists(): shutil.copy(src, dest)` steps, as <<src, dest>>
FixedCopies(folder, prefix) ==
    { <<SourceFile(folder, prefix, "_diversity_scores.json"), "data/diversity_scores.json">>,
      <<SourceFile(folder, prefix, "_top_docs.json"), "data/top_docs.json">>,
      <<SourceFile(folder, prefix, "_document_dist.png"), "images/document_dist.png">>,
      <<SourceFile(folder, prefix, "_temporal_topic_dist_quarter_line.png"),
        "images/temporal_line.png">>,
      <<SourceFile(folder, prefix, "_temporal_topic_dist_quarter_stacked_area.png"),
        "images/temporal_area.png">>,
      <<SourceFile(folder, prefix, "_topic_distribution_by_year.png"),
        "images/yearly_dist.png">> }

\* tsne_patterns, in the order they are tried
\* a mutation of TsnePatterns: the unprefixed name is tried first
TsnePatterns_plain_first(folder, prefix) ==
    << Loose("tsne.png"),
       SourceFile(folder, prefix, "_tsne_visualization.png"),
       SourceFile(folder, prefix, "_tsne.png") >>

TsnePatterns(folder, prefix) ==
    << SourceFile(folder, prefix, "_tsne_visualization.png"),
       SourceFile(folder, prefix, "_tsne.png"),
       Loose("tsne.png") >>

\* the first pattern that exists is copied to images/tsne.png
TsneCopies(folder, prefix) ==
    LET patterns == TsnePatterns(folder, prefix)
        found == { k \in 1..Len(patterns) : PathExists(folder, patterns[k]) }
    IN  IF found = {} THEN {}
        ELSE { <<patterns[Least(found)], "images/tsne.png">> }

\* the top-level files, whatever their prefix
TopLevel(folder) == { f \in folder.files : f.prefix \in {"own", "other", ""} }

\* source_path.glob("*umap*visualization*.png")
UmapVisualizationGlob(folder) ==
    { f \in TopLevel(folder) : f.rest = "_umap_visualization.png" }

\* source_path.glob("*umap*.png")
UmapGlob(folder) ==
    { f \in TopLevel(folder) : f.rest \in {"_umap_visualization.png", "_umap.png"} }

\* umap_patterns[0]: a match of the first glob if there is one, else a match
\* of the second (the folders of the runs hold at most one file per glob)
UmapCopies(folder) ==
    IF UmapVisualizationGlob(folder) # {}
    THEN { <<CHOOSE f \in UmapVisualizationGlob(folder) : TRUE, "images/umap.png">> }
    ELSE IF UmapGlob(folder) # {}
    THEN { <<CHOOSE f \in UmapGlob(folder) : TRUE, "images/umap.png">> }
    ELSE {}

\* a member of the wordclouds sub-folder
InWordclouds(name) == File("wordclouds/", name)

\* the member names that "Topic *.png" matches
TopicPngNames == {"Topic 1.png", "Topic 2.png"}

\* wordclouds_src.glob("Topic *.png"), each copied under its own name
WordcloudCopies(folder) ==
    IF ~PathExists(folder, Loose("wordclouds")) THEN {}
    ELSE { <<f, "images/wordclouds/" \o f.rest>> :
             f \in { g \in folder.files :
                        g.prefix = "wordclouds/" /\ g.rest \in TopicPngNames } }

\* source_path.glob("*violin*interactive*.html")
ViolinGlob(folder) ==
    { f \in TopLevel(folder) : f.rest = "_violin_interactive.html" }

ViolinCopies(folder) ==
    IF ViolinGlob(folder) = {} THEN {}
    ELSE { <<CHOOSE f \in ViolinGlob(folder) : TRUE, "violin-plot.html">> }

\* every copy of an optional artifact that generate_app makes
OptionalCopies(folder, prefix) ==
    { c \in FixedCopies(folder, prefix) : PathExists(folder, c[1]) }
        \cup TsneCopies(folder, prefix) \cup UmapCopies(folder)
        \cup WordcloudCopies(folder) \cup ViolinCopies(folder)

(***************************************************************************)
(* The generated pages, by what they are generated from.                   *)
(***************************************************************************)
LowerLetters ==
    <<"a", "b", "c", "d", "e", "f", "g", "h", "i", "j", "k", "l", "m",
      "n", "o", "p", "q", "r", "s", "t", "u", "v", "w", "x", "y", "z">>

UpperLetters ==
    <<"A", "B", "C", "D", "E", "F", "G", "H", "I", "J", "K", "L", "M",
      "N", "O", "P", "Q", "R", "S", "T", "U", "V", "W", "X", "Y", "Z">>

IsLetter(c) == \E i \in 1..Len(LowerLetters) : c \in {LowerLetters[i], UpperLetters[i]}

UpperChar(c) ==
    IF \E i \in 1..Len(LowerLetters) : LowerLetters[i] = c
    THEN UpperLetters[CHOOSE i \in 1..Len(LowerLetters) : LowerLetters[i] = c]
    ELSE c

LowerChar(c) ==
    IF \E i \in 1..Len(UpperLetters) : UpperLetters[i] = c
    THEN LowerLetters[CHOOSE i \in 1..Len(UpperLetters) : UpperLetters[i] = c]
    ELSE c

\* str.upper()
Upper(s) == [k \in 1..Len(s) |-> UpperChar(s[k])]

\* str.title(): a letter after a non-letter is upper case, the others lower
Title(s) ==
    [k \in 1..Len(s) |->
        IF k = 1 \/ ~IsLetter(s[k - 1]) THEN UpperChar(s[k]) ELSE LowerChar(s[k])]

\* len(base_colors)
BaseColors == 45

\* the shortest palette that generate_charts_js slices
MinColors == 25

\* base_colors as written in the source: a color is its position, from 0,
\* in the list of 45
BasePalette == [k \in 1..BaseColors |-> k - 1]

\* base_colors.extend(base_colors)
Extend(base_colors) == base_colors \o base_colors

RECURSIVE Extended(_, _)
\* while len(base_colors) < topic_count: base_colors.extend(base_colors)
Extended(base_colors, topic_count) ==
    IF Len(base_colors) < topic_count
    THEN Extended(Extend(base_colors), topic_count)
    ELSE base_colors

\* a mutation of Stop: the slice stops at topic_count
Stop_topic_count(topic_count) == topic_count

\* max(topic_count, 25)
Stop(topic_count) == IF topic_count > MinColors THEN topic_count ELSE MinColors

\* list[:stop] for stop >= 0
Slice(list, stop) == SubSeq(list, 1, IF stop < Len(list) THEN stop ELSE Len(list))

\* charts.js: the colors of base_colors[:max(topic_count, 25)]
ChartsJs(base_colors, topic_count) ==
    [topic_count |-> topic_count, colors |-> Slice(base_colors, Stop(topic_count))]

generate_charts_js(topic_count) ==
    ChartsJs(Extended(BasePalette, topic_count), topic_count)

\* index.html: the header, the navigation tabs and the iframes
generate_index_html(method_upper, topic_count, dataset_title, has_violin_plot, has_umap) ==
    [method |-> method_upper, topic_count |-> topic_count, dataset |-> dataset_title,
     tabs |-> {"overview", "topics", "graph", "temporal", "documents"}
                \cup (IF has_violin_plot THEN {"violin"} ELSE {}),
     iframes |-> {"topic-graph.html"}
                \cup (IF has_violin_plot THEN {"violin-plot.html"} ELSE {}),
     umap_card |-> has_umap]

NoPage == [written |-> FALSE]

\* topic-graph.html: the header and the rows of the CSV file
generate_topic_graph_html(csv_path, method_upper, topic_count) ==
    [written |-> TRUE, method |-> method_upper, topic_count |-> topic_count,
     csv |-> csv_path]

\* a mutation of AppDirs: images/ made without its wordclouds sub-directory
AppDirs_no_wordclouds == {"css", "js", "data", "images"}

\* the directories made with mkdir(parents=True, exist_ok=True)
AppDirs == {"css", "js", "data", "images", "images/wordclouds"}

\* the files written from constants of the program
StaticFiles == {"css/styles.css", "js/topics.js", "js/app.js"}

\* the files written into the output directory, by what they are made from
AppFiles(folder, prefix, metadata, topic_count, topic_data) ==
    LET method_upper == Upper(metadata.method)
        dataset_title == Title(Replace(metadata.dataset, "_", " "))
        copies == OptionalCopies(folder, prefix)
        has_umap == UmapCopies(folder) # {}
        has_violin_plot == ViolinCopies(folder) # {}
        csv_path == SourceFile(folder, prefix, "_temporal_topic_dist_quarter.csv")
    IN  [written |-> TRUE,
         dirs |-> AppDirs,
         static |-> StaticFiles,
         charts_js |-> generate_charts_js(topic_count),
         coherence_scores_json |-> topic_data,
         copied |-> [dest \in { c[2] : c \in copies } |->
                        (CHOOSE c \in copies : c[2] = dest)[1]],
         index_html |-> generate_index_html(method_upper, topic_count, dataset_title,
                                            has_violin_plot, has_umap),
         topic_graph_html |->
            IF PathExists(folder, csv_path)
            THEN generate_topic_graph_html(csv_path, method_upper, topic_count)
            ELSE NoPage]

\* a mutation of TopicCountMissing: the check written as topic_count < 0
TopicCountMissing_negative(topic_count) == topic_count < 0

\* if topic_count == 0: raise ValueError
TopicCountMissing(topic_count) == topic_count = 0

\* a mutation of UpdatedMetadata: the count of the folder name is kept
UpdatedMetadata_keeps_name_count(metadata, topic_count) == metadata

\* a mutation of UpdatedMetadata: a new descriptor is made and the dataset is lost
UpdatedMetadata_loses_dataset(metadata, topic_count) ==
    [tag |-> "dict", dataset |-> <<>>, method |-> metadata.method,
     topic_count |-> topic_count]

\* metadata['topic_count'] = topic_count
UpdatedMetadata(metadata, topic_count) == [metadata EXCEPT !.topic_count = topic_count]

\* BASE_DIR, the directory of the program, with the separator that follows it
BASE_DIR == <<"/", "a", "p", "p", "/">>

\* source_dir = "to_generate_from", with the separator that follows it
TO_GENERATE_FROM ==
    <<"t", "o", "_", "g", "e", "n", "e", "r", "a", "t", "e", "_", "f", "r", "o", "m", "/">>

\* Path.is_absolute()
IsAbsolute(path) == path # <<>> /\ path[1] = "/"

\* if not path.is_absolute(): path = BASE_DIR / path
Resolve(path) == IF IsAbsolute(path) THEN path ELSE BASE_DIR \o path

\* the path of a source folder: an entry of the source directory
SourcePath(folder) == Resolve(TO_GENERATE_FROM \o folder.name)

\* a mutation of OutputPath: the name is generated whatever output_dir says
OutputPath_always_generated(output_dir, metadata) ==
    Resolve(generate_output_dir_name(metadata))

\* the output directory: output_dir if it is given and not empty, else the
\* generated name, under BASE_DIR
OutputPath(output_dir, metadata) ==
    IF Truthy(output_dir) THEN Resolve(output_dir.text)
    ELSE BASE_DIR \o generate_output_dir_name(metadata)

\* the part of generate_app after the metadata and the prefix are known
GenerateFrom(folder, output_dir, metadata, prefix) ==
    LET data_file == find_data_file(folder, prefix)
    IN  IF data_file = "None"
        THEN Failed("FileNotFoundError: No data file found", metadata, prefix, data_file)
        ELSE
            LET topic_data == load_topic_data(folder, prefix, data_file)
                counted == get_topic_count(topic_data)
            IN  IF counted.raises # "none"
                THEN Failed(counted.raises, metadata, prefix, data_file)
                ELSE IF TopicCountMissing(counted.value)
                THEN Failed("ValueError: Could not determine topic count from data",
                            metadata, prefix, data_file)
                ELSE
                    LET updated == UpdatedMetadata(metadata, counted.value)
                        output_path == OutputPath(output_dir, updated)
                    IN  [raises |-> "none", value |-> output_path,
                         metadata |-> updated, prefix |-> prefix,
                         data_file |-> data_file, topic_count |-> counted.value,
                         app |-> AppFiles(folder, prefix, updated, counted.value,
                                          topic_data)]

\* generate_app(source_folder, output_dir, prefix, method, dataset); `exists`
\* says whether the source folder exists, `folder` is its entry
\* a mutation of UseOverrides: the prefix alone switches the parsing off
UseOverrides_prefix_only(args) == Truthy(args.prefix)

\* if prefix and method and dataset:
UseOverrides(args) == Truthy(args.prefix) /\ Truthy(args.method) /\ Truthy(args.dataset)

generate_app(exists, folder, args) ==
    IF ~exists
    THEN Failed("FileNotFoundError: Source folder not found", NoneValue, <<>>, "None")
    ELSE IF UseOverrides(args)
    THEN GenerateFrom(folder, args.output_dir,
                      [tag |-> "dict", dataset |-> args.dataset.text,
                       method |-> args.method.text, topic_count |-> 0],
                      args.prefix.text)
    ELSE IF parse_folder_name(folder.name) = NoneValue
    THEN Failed("ValueError: Invalid folder name format", NoneValue, <<>>, "None")
    ELSE GenerateFrom(folder, args.output_dir, parse_folder_name(folder.name),
                      folder.name)

\* every directory and file an output directory holds
Paths(app) ==
    app.dirs \cup app.static \cup DOMAIN app.copied
        \cup {"js/charts.js", "data/coherence_scores.json", "index.html"}
        \cup (IF app.topic_graph_html.written THEN {"topic-graph.html"} ELSE {})

\* an output directory that exists is written over: mkdir(exist_ok=True)
\* keeps what is there, and each file that is written replaces its old content
Overlay(old, new) ==
    IF ~old.written THEN new
    ELSE [new EXCEPT
            !.dirs = old.dirs \cup new.dirs,
            !.static = old.static \cup new.static,
            !.copied = [dest \in DOMAIN old.copied \cup DOMAIN new.copied |->
                            IF dest \in DOMAIN new.copied THEN new.copied[dest]
                            ELSE old.copied[dest]],
            !.topic_graph_html = IF new.topic_graph_html.written
                                 THEN new.topic_graph_html
                                 ELSE old.topic_graph_html]

\* a mutation of WriteApp: the directories are made before the checks, so
\* that a failed call leaves an empty directory behind
WriteApp_before_checks(fs, result) ==
    [p \in DOMAIN fs \cup {IF result.raises = "none" THEN result.value ELSE BASE_DIR} |->
        IF result.raises = "none" /\ p = result.value THEN result.app
        ELSE IF p \in DOMAIN fs THEN fs[p]
        ELSE NoApp]

\* the output directories after a call: a successful call writes its files
WriteApp(fs, result) ==
    IF result.raises # "none" THEN fs
    ELSE [p \in DOMAIN fs \cup {result.value} |->
            IF p # result.value THEN fs[p]
            ELSE IF p \in DOMAIN fs THEN Overlay(fs[p], result.app)
            ELSE result.app]

\* a mutation of SourceAfter: the data file is moved instead of copied
SourceAfter_moves_data_file(folder, result) ==
    IF result.raises = "none" THEN [folder EXCEPT !.own = NoFiles] ELSE folder

\* the source folder after a call: it is only read (exists, glob, open for
\* reading, the source side of shutil.copy), so it changes only when it is
\* itself the output directory the call writes
SourceAfter(folder, result) ==
    IF result.raises = "none" /\ result.value = SourcePath(folder)
    THEN [folder EXCEPT !.files = @ \cup { Loose(p) : p \in Paths(result.app) }]
    ELSE folder

\* the source directory after a call on one of its entries
SourceDirAfter(dir, folder, result) ==
    IF folder \in dir THEN (dir \ {folder}) \cup { SourceAfter(folder, result) } ELSE dir

(***************************************************************************)
(* generate_all_apps                                                       *)
(***************************************************************************)
\* the characters of the names, in code point order
CharOrder ==
    <<LF, "-", "0", "1", "2", "3", "4", "5", "6", "7", "8", "9", "_",
      "a", "b", "c", "d", "e", "f", "g", "h", "i", "j", "k", "l", "m",
      "n", "o", "p", "q", "r", "s", "t", "u", "v", "w", "x", "y", "z">>

CodePoint(c) == CHOOSE i \in 1..Len(CharOrder) : CharOrder[i] = c

\* s < t for strings
StrLess(s, t) ==
    \E k \in 1..(Len(s) + 1) :
        /\ k <= Len(t)
        /\ \A j \in 1..(k - 1) : s[j] = t[j]
        /\ \/ k = Len(s) + 1
           \/ CodePoint(s[k]) < CodePoint(t[k])

\* sorted(source_path.iterdir()): the entries in ascending order of their names
SortedEntries(dir) ==
    CHOOSE q \in [1..Cardinality(dir) -> dir] :
        \A i, j \in 1..Cardinality(dir) : i < j => StrLess(q[i].name, q[j].name)

DefaultArgs == [output_dir |-> NoArg, prefix |-> NoArg, method |-> NoArg, dataset |-> NoArg]

\* a mutation of Caught: the handler written as `except ValueError`
Caught_value_errors_only(e) ==
    e \in {"ValueError: Invalid folder name format",
           "ValueError: Could not determine topic count from data"}

\* `except Exception` catches every exception generate_app raises
Caught(e) == TRUE

Visit(folder, outcome) == [name |-> folder.name, outcome |-> outcome]

\* a mutation of ErrorMessage: the message written without the folder's name
ErrorMessage_without_folder(folder, e) == [name |-> <<>>, error |-> e]

\* print(f"Error processing {folder.name}: {e}")
ErrorMessage(folder, e) == [name |-> folder.name, error |-> e]

\* generate_all_apps up to the loop: the source directory exists
Start ==
    /\ pc = "idle"
    /\ pc' = "loop"
    /\ todo' = SortedEntries(source_dir)
    /\ visited' = <<>>
    /\ generated' = <<>>
    /\ printed' = <<>>
    /\ UNCHANGED <<source_dir, out_fs, call>>

\* an entry that is no directory: continue
SkipFile ==
    /\ pc = "loop" /\ todo # <<>>
    /\ ~Head(todo).is_dir
    /\ todo' = Tail(todo)
    /\ visited' = Append(visited, Visit(Head(todo), "not a directory"))
    /\ UNCHANGED <<source_dir, pc, generated, printed, out_fs, call>>

\* a folder whose name does not parse: nothing is done for it
SkipName ==
    /\ pc = "loop" /\ todo # <<>>
    /\ Head(todo).is_dir
    /\ parse_folder_name(Head(todo).name) = NoneValue
    /\ todo' = Tail(todo)
    /\ visited' = Append(visited, Visit(Head(todo), "no metadata"))
    /\ UNCHANGED <<source_dir, pc, generated, printed, out_fs, call>>

\* generate_app returns: its output path is appended to `generated`
Generate ==
    /\ pc = "loop" /\ todo # <<>>
    /\ Head(todo).is_dir
    /\ parse_folder_name(Head(todo).name) # NoneValue
    /\ LET output == generate_app(TRUE, Head(todo), DefaultArgs)
       IN  /\ output.raises = "none"
           /\ generated' = Append(generated, output.value)
           /\ out_fs' = WriteApp(out_fs, output)
           /\ source_dir' = SourceDirAfter(source_dir, Head(todo), output)
    /\ todo' = Tail(todo)
    /\ visited' = Append(visited, Visit(Head(todo), "generated"))
    /\ UNCHANGED <<pc, printed, call>>

\* generate_app raises: the handler prints the error and the loop goes on
GenerateRaises ==
    /\ pc = "loop" /\ todo # <<>>
    /\ Head(todo).is_dir
    /\ parse_folder_name(Head(todo).name) # NoneValue
    /\ LET output == generate_app(TRUE, Head(todo), DefaultArgs)
       IN  /\ output.raises # "none"
           /\ IF Caught(output.raises)
              THEN /\ printed' = Append(printed, ErrorMessage(Head(todo), output.raises))
                   /\ todo' = Tail(todo)
                   /\ visited' = Append(visited, Visit(Head(todo), output.raises))
                   /\ pc' = pc
              ELSE /\ pc' = "raised"
                   /\ UNCHANGED <<printed, todo, visited>>
    /\ UNCHANGED <<source_dir, generated, out_fs, call>>

\* the loop is over: return generated
Return ==
    /\ pc = "loop" /\ todo = <<>>
    /\ pc' = "done"
    /\ UNCHANGED <<source_dir, todo, visited, generated, printed, out_fs, call>>

(***************************************************************************)
(* Direct calls of the functions.                                          *)
(***************************************************************************)
\* the call of parse_folder_name that the initial state holds ready
ParseCall ==
    /\ call.op = "parse_folder_name" /\ ~call.returned
    /\ call' = [call EXCEPT !.returned = TRUE,
                            !.ret = parse_folder_name(call.folder_name)]
    /\ UNCHANGED <<source_dir, pc, todo, visited, generated, printed, out_fs>>

\* the call of get_topic_count that the initial state holds ready
CountCall ==
    /\ call.op = "get_topic_count" /\ ~call.returned
    /\ call' = [call EXCEPT !.returned = TRUE, !.ret = get_topic_count(call.data)]
    /\ UNCHANGED <<source_dir, pc, todo, visited, generated, printed, out_fs>>

\* a path that is not in the source directory
MissingFolder ==
    [name |-> <<"g", "o", "n", "e">>, is_dir |-> FALSE, own |-> NoFiles, other |-> NoFiles,
     files |-> {}]

OUT == <<"o", "u", "t">>

X_Y == <<"x", "_", "y">>

\* the arguments of the direct calls of generate_app
ArgChoices ==
    [output_dir : {NoArg, Arg(OUT)}, prefix : {NoArg, Arg(OtherPrefix)},
     method : {NoArg, Arg(LDA)}, dataset : {NoArg, Arg(<<>>), Arg(X_Y)}]

\* generate_charts_js, one round of its while loop
ChartsExtend ==
    /\ call.op = "generate_charts_js" /\ ~call.returned
    /\ Len(call.base_colors) < call.topic_count
    /\ call' = [call EXCEPT !.base_colors = Extend(@)]
    /\ UNCHANGED <<source_dir, pc, todo, visited, generated, printed, out_fs>>

\* generate_charts_js, from the end of its while loop to its return
ChartsReturn ==
    /\ call.op = "generate_charts_js" /\ ~call.returned
    /\ ~(Len(call.base_colors) < call.topic_count)
    /\ call' = [call EXCEPT !.returned = TRUE,
                            !.ret = ChartsJs(call.base_colors, call.topic_count)]
    /\ UNCHANGED <<source_dir, pc, todo, visited, generated, printed, out_fs>>

NoCall == [op |-> "none", returned |-> FALSE]

\* one call of generate_app on the source folder, or on a path that is missing
GenerateAppCall ==
    /\ call = NoCall
    /\ \E folder \in source_dir \cup {MissingFolder}, args \in ArgChoices :
        LET result == generate_app(folder \in source_dir, folder, args)
        IN  /\ call' = [op |-> "generate_app", returned |-> TRUE, folder |-> folder,
                        args |-> args, ret |-> result]
            /\ out_fs' = WriteApp(out_fs, result)
            /\ source_dir' = SourceDirAfter(source_dir, folder, result)
    /\ UNCHANGED <<pc, todo, visited, generated, printed>>

\* one call of generate_app with the source folder itself as output_dir
GenerateAppInPlace ==
    /\ call = NoCall
    /\ \E folder \in source_dir :
        LET args == [DefaultArgs EXCEPT !.output_dir = Arg(SourcePath(folder))]
            result == generate_app(TRUE, folder, args)
        IN  /\ call' = [op |-> "generate_app", returned |-> TRUE, folder |-> folder,
                        args |-> args, ret |-> result]
            /\ out_fs' = WriteApp(out_fs, result)
            /\ source_dir' = SourceDirAfter(source_dir, folder, result)
    /\ UNCHANGED <<pc, todo, visited, generated, printed>>

NOWHERE == <<"n", "o", "w", "h", "e", "r", "e">>

\* source_dir arguments that name no directory
MissingDirs == { NOWHERE, <<"/">> \o NOWHERE }

\* source_path.exists(): the directories there are hold the source folders
\* or were written by generate_app
DirExists(path, fs) ==
    \/ Resolve(path \o <<"/">>) = Resolve(TO_GENERATE_FROM)
    \/ Resolve(path) \in DOMAIN fs

\* a mutation of NotFound: a missing source directory gives an empty list
NotFound_returns_empty(source_path) == [raises |-> "none", value |-> <<>>]

\* raise FileNotFoundError(f"Source directory not found: {source_path}")
NotFound(source_path) ==
    [raises |-> "FileNotFoundError: Source directory not found", value |-> NoneValue]

\* generate_all_apps called on a path that does not exist
StartMissing ==
    /\ pc = "idle" /\ call = NoCall
    /\ \E path \in MissingDirs :
        /\ ~DirExists(path, out_fs)
        /\ call' = [op |-> "generate_all_apps", returned |-> TRUE,
                    source_dir |-> path, ret |-> NotFound(Resolve(path))]
        /\ pc' = IF NotFound(Resolve(path)).raises = "none" THEN "done" ELSE "raised"
    /\ UNCHANGED <<source_dir, todo, visited, generated, printed, out_fs>>

\* one more call of generate_app, with its defaults, on a folder as it is now
GenerateAppAgain ==
    /\ \E folder \in source_dir :
        LET result == generate_app(TRUE, folder, DefaultArgs)
        IN  /\ call' = [op |-> "generate_app", returned |-> TRUE, folder |-> folder,
                        args |-> DefaultArgs, ret |-> result]
            /\ out_fs' = WriteApp(out_fs, result)
            /\ source_dir' = SourceDirAfter(source_dir, folder, result)
    /\ UNCHANGED <<pc, todo, visited, generated, printed>>

\* what is left of a folder's files when one is deleted: a sub-folder goes
\* with what it holds
Without(files, file) ==
    IF file = Loose("wordclouds")
    THEN { f \in files : f # file /\ f.prefix # "wordclouds/" }
    ELSE files \ {file}

\* between two calls the owner of the source folder deletes one of its
\* optional artifacts
RemoveArtifact ==
    /\ \E folder \in source_dir : \E file \in folder.files :
        source_dir' = (source_dir \ {folder})
                        \cup { [folder EXCEPT !.files = Without(@, file)] }
    /\ UNCHANGED <<pc, todo, visited, generated, printed, out_fs, call>>

ABS_OUT == <<"/", "t", "m", "p", "/", "o", "u", "t">>

\* the arguments of generate_app, each absent, empty or a string
WideArgChoices ==
    [output_dir : {NoArg, Arg(<<>>), Arg(OUT), Arg(ABS_OUT)},
     prefix : {NoArg, Arg(<<>>), Arg(OtherPrefix)},
     method : {NoArg, Arg(<<>>), Arg(LDA)},
     dataset : {NoArg, Arg(<<>>), Arg(X_Y)}]

\* one call of generate_app with any of these arguments
GenerateAppArgsCall ==
    /\ call = NoCall
    /\ \E folder \in source_dir \cup {MissingFolder}, args \in WideArgChoices :
        LET result == generate_app(folder \in source_dir, folder, args)
        IN  /\ call' = [op |-> "generate_app", returned |-> TRUE, folder |-> folder,
                        args |-> args, ret |-> result]
            /\ out_fs' = WriteApp(out_fs, result)
            /\ source_dir' = SourceDirAfter(source_dir, folder, result)
    /\ UNCHANGED <<pc, todo, visited, generated, printed>>

(***************************************************************************)
(* Documents and folders of the runs.                                      *)
(***************************************************************************)
Mapping(k) == [kind |-> "object", size |-> k]

CvMapping(k) == [kind |-> "object", has_cv |-> TRUE, cv |-> Mapping(k)]

Object(relevance, gensim) ==
    [kind |-> "object",
     has_relevance |-> relevance # Absent, relevance |-> relevance,
     has_gensim |-> gensim # NoGensim, gensim |-> gensim]

DocumentSamples ==
    { Object(Mapping(k), NoGensim) : k \in 0..MaxKeys }
    \cup { Object(Absent, CvMapping(k)) : k \in 0..MaxKeys }
    \cup { Object(Mapping(j), CvMapping(MaxKeys - j)) : j \in 0..1 }
    \cup { Object(Absent, NoGensim),
           Object([kind |-> "array", size |-> 2], NoGensim),
           Object(Absent, [kind |-> "object", has_cv |-> FALSE, cv |-> Absent]),
           Object(Absent, [kind |-> "null", has_cv |-> FALSE, cv |-> Absent]) }

FileChoices == {NoFile} \cup DocumentSamples

A_NMTF_3 == <<"a">> \o WITH_PAGERANK \o NMTF \o BPE \o <<"3">>

HF_PNMF_34 == HEART_FAILURE \o WITH_PAGERANK \o PNMF \o BPE \o StrOf(ExampleCount)

STUDY_PNMF_10 == <<"s", "t", "u", "d", "y", "_">> \o PNMF \o BPE \o <<"1", "0">>

B_NMTF_7_LF == <<"b">> \o WITH_PAGERANK \o NMTF \o BPE \o <<"7", LF>>

FolderNames == { A_NMTF_3, HF_PNMF_34, STUDY_PNMF_10, B_NMTF_7_LF }

A_NMTF_5 == <<"a">> \o WITH_PAGERANK \o NMTF \o BPE \o <<"5">>

\* the names of the entries generate_all_apps iterates over
EntryNames == FolderNames \cup { A_NMTF_5 }

OtherChoices ==
    { NoFiles,
      [coherence_scores |-> Object(Absent, CvMapping(2)), relevance_top_words |-> NoFile] }

\* the folders generate_app is called on directly
AppFolders ==
    [name : FolderNames, is_dir : {TRUE},
     own : [coherence_scores : FileChoices, relevance_top_words : FileChoices],
     other : OtherChoices, files : {{}}]
    \cup [name : FolderNames, is_dir : {FALSE}, own : {NoFiles}, other : {NoFiles},
           files : {{}}]

\* the contents of the entries generate_all_apps iterates over
EntryChoices ==
    [is_dir : {TRUE},
     own : { NoFiles,
             [coherence_scores |-> Object(Mapping(2), NoGensim),
              relevance_top_words |-> NoFile],
             [coherence_scores |-> NoFile,
              relevance_top_words |-> Object(Absent, CvMapping(MaxKeys))],
             [coherence_scores |-> Object(Absent, NoGensim),
              relevance_top_words |-> Object(Mapping(1), NoGensim)],
             [coherence_scores |->
                  Object(Absent, [kind |-> "null", has_cv |-> FALSE, cv |-> Absent]),
              relevance_top_words |-> NoFile] },
     other : {NoFiles}, files : {{}}]
    \cup { [is_dir |-> TRUE,
             own |-> [coherence_scores |-> Object(Absent, CvMapping(2)),
                      relevance_top_words |-> NoFile],
             other |-> NoFiles,
             files |-> { File("own", "_temporal_topic_dist_quarter.csv"),
                         File("own", "_violin_interactive.html") }] }
    \cup [is_dir : {FALSE}, own : {NoFiles}, other : {NoFiles}, files : {{}}]

Entry(name, c) ==
    [name |-> name, is_dir |-> c.is_dir, own |-> c.own, other |-> c.other,
     files |-> c.files]

EmptyFs == [p \in {} |-> NoApp]

InitRun ==
    /\ pc = "idle"
    /\ todo = <<>>
    /\ visited = <<>>
    /\ generated = <<>>
    /\ printed = <<>>
    /\ out_fs = EmptyFs

\* parse_folder_name applied to folder names
InitParse ==
    /\ source_dir = {}
    /\ InitRun
    /\ \E parts \in NameParts :
        call = [op |-> "parse_folder_name", returned |-> FALSE, parts |-> parts,
                folder_name |-> NameOf(parts), ret |-> NoneValue]

SpecParse == InitParse /\ [][ParseCall]_vars

\* get_topic_count applied to documents
InitCount ==
    /\ source_dir = {}
    /\ InitRun
    /\ \E data \in Documents :
        call = [op |-> "get_topic_count", returned |-> FALSE, data |-> data,
                ret |-> Returned(0)]

SpecCount == InitCount /\ [][CountCall]_vars

\* generate_charts_js called with a topic count
InitCharts ==
    /\ source_dir = {}
    /\ InitRun
    /\ \E topic_count \in 0..MaxTopics :
        call = [op |-> "generate_charts_js", returned |-> FALSE,
                topic_count |-> topic_count, base_colors |-> BasePalette,
                ret |-> ChartsJs(<<>>, 0)]

NextCharts == ChartsExtend \/ ChartsReturn

\* the function runs to its end: no round of the loop waits for anything
SpecCharts == InitCharts /\ [][NextCharts]_vars /\ WF_vars(NextCharts)

\* generate_app called on one source folder
InitApp ==
    /\ \E folder \in AppFolders : source_dir = {folder}
    /\ InitRun
    /\ call = NoCall

SpecApp == InitApp /\ [][GenerateAppCall]_vars

HF_NMTF_34 == HEART_FAILURE \o WITH_PAGERANK \o NMTF \o BPE \o StrOf(ExampleCount)

\* one file of each kind of optional artifact, under the folder's own name
OptionalArtifacts ==
    { File("own", "_diversity_scores.json"), File("own", "_top_docs.json"),
      File("own", "_document_dist.png"),
      File("own", "_temporal_topic_dist_quarter_line.png"),
      File("own", "_temporal_topic_dist_quarter_stacked_area.png"),
      File("own", "_topic_distribution_by_year.png"),
      File("own", "_tsne.png"), File("own", "_umap.png"), Loose("wordclouds"),
      File("own", "_violin_interactive.html"),
      File("own", "_temporal_topic_dist_quarter.csv") }

\* what a wordclouds sub-folder holds
WordcloudMembers ==
    { InWordclouds("Topic 1.png"), InWordclouds("Topic 2.png"), InWordclouds("legend.png") }

WithMembers(files) ==
    IF Loose("wordclouds") \in files THEN files \cup WordcloudMembers ELSE files

\* the other names of the t-SNE and UMAP images, and files under another prefix
VariantArtifacts ==
    { File("own", "_tsne_visualization.png"), File("own", "_tsne.png"), Loose("tsne.png"),
      File("own", "_umap_visualization.png"), File("own", "_umap.png"),
      File("other", "_diversity_scores.json"),
      File("other", "_temporal_topic_dist_quarter.csv"),
      File("other", "_violin_interactive.html") }

\* folders with a usable score document and any of the optional artifacts
ArtifactFolders ==
    { [name |-> HF_PNMF_34, is_dir |-> TRUE,
       own |-> [coherence_scores |-> Object(Mapping(2), NoGensim),
                relevance_top_words |-> NoFile],
       other |-> [coherence_scores |-> Object(Absent, CvMapping(MaxKeys)),
                  relevance_top_words |-> NoFile],
       files |-> WithMembers(files)] : files \in SUBSET OptionalArtifacts }
    \cup
    { [name |-> HF_NMTF_34, is_dir |-> TRUE,
       own |-> [coherence_scores |-> NoFile,
                relevance_top_words |-> Object(Mapping(ExampleCount), NoGensim)],
       other |-> [coherence_scores |-> Object(Absent, CvMapping(MaxKeys)),
                  relevance_top_words |-> NoFile],
       files |-> files] : files \in SUBSET VariantArtifacts }

\* generate_app called on one source folder that holds optional artifacts
InitArtifacts ==
    /\ \E folder \in ArtifactFolders : source_dir = {folder}
    /\ InitRun
    /\ call = NoCall

SpecArtifacts == InitArtifacts /\ [][GenerateAppCall]_vars

\* folders with score documents and artifacts under two prefixes
ArgFolders ==
    [name : { A_NMTF_3, HF_PNMF_34, STUDY_PNMF_10 }, is_dir : {TRUE},
     own : { NoFiles,
             [coherence_scores |-> Object(Mapping(MaxKeys), NoGensim),
              relevance_top_words |-> NoFile],
             [coherence_scores |-> Object(Absent, NoGensim),
              relevance_top_words |-> NoFile] },
     other : OtherChoices,
     files : { {},
               { File("own", "_diversity_scores.json"), File("other", "_top_docs.json"),
                 File("own", "_temporal_topic_dist_quarter.csv"),
                 File("other", "_tsne.png"), Loose("tsne.png") } }]

\* the artifacts of the folders that are generated from more than once
RegenArtifacts ==
    { File("own", "_diversity_scores.json"), File("own", "_tsne.png"),
      File("own", "_violin_interactive.html"),
      File("own", "_temporal_topic_dist_quarter.csv"),
      Loose("wordclouds"), InWordclouds("Topic 1.png") }

RegenFolders ==
    { [name |-> HF_PNMF_34, is_dir |-> TRUE,
       own |-> [coherence_scores |-> Object(Mapping(2), NoGensim),
                relevance_top_words |-> NoFile],
       other |-> NoFiles,
       files |-> files] :
        files \in { fs \in SUBSET RegenArtifacts :
                        InWordclouds("Topic 1.png") \in fs => Loose("wordclouds") \in fs } }

\* generate_app called any number of times on one source folder that loses
\* artifacts between the calls
InitRegen ==
    /\ \E folder \in RegenFolders : source_dir = {folder}
    /\ InitRun
    /\ call = NoCall

SpecRegen == InitRegen /\ [][GenerateAppAgain \/ RemoveArtifact]_vars

\* generate_app called once with any arguments
InitArgs ==
    /\ \E folder \in ArgFolders : source_dir = {folder}
    /\ InitRun
    /\ call = NoCall

SpecArgs == InitArgs /\ [][GenerateAppArgsCall]_vars

\* one entry, on which generate_app is called and generate_all_apps is run
InitFrame ==
    /\ \E name \in EntryNames, c \in EntryChoices : source_dir = { Entry(name, c) }
    /\ InitRun
    /\ call = NoCall

\* generate_all_apps run on a source directory
Init ==
    /\ \E names \in SUBSET EntryNames :
        /\ Cardinality(names) <= MaxFolders
        /\ \E c \in [names -> EntryChoices] :
            source_dir = { Entry(n, c[n]) : n \in names }
    /\ InitRun
    /\ call = NoCall

Next == Start \/ SkipFile \/ SkipName \/ Generate \/ GenerateRaises \/ Return

Spec == Init /\ [][Next]_vars

SpecFrame == InitFrame /\ [][Next \/ GenerateAppCall \/ GenerateAppInPlace]_vars

\* the same, with calls of generate_all_apps on paths that do not exist
SpecMissing == InitFrame /\ [][Next \/ StartMissing \/ GenerateAppCall]_vars

(***************************************************************************)
(* Properties of parse_folder_name (SpecParse).                            *)
(***************************************************************************)
Parsed == call.op = "parse_folder_name" /\ call.returned

\* the descriptor {dataset: d, method: m, topic_count: n} of the parts of a name
DescriptorOf(parts) ==
    [tag |-> "dict", dataset |-> parts.d, method |-> parts.m,
     topic_count |-> parts.n.value]

HasLineFeed(s) == \E k \in 1..Len(s) : s[k] = LF

\* C1 as stated: for every dataset string d, method m in {nmtf, pnmf} and
\* count literal n, parse_folder_name(d_with_pagerank_m_bpe_n) returns
\* dataset d, method m and topic_count n.
C1_AnyDataset ==
    (Parsed /\ WellFormed(call.parts)) => call.ret = DescriptorOf(call.parts)

\* C1 amended: for every non-empty dataset string d without a line feed,
\* method m in {nmtf, pnmf} and count literal n, parse_folder_name of
\* d_with_pagerank_m_bpe_n returns dataset d (whole, also when d itself
\* holds _with_pagerank_ or _bpe_ segments), method m and the value of n;
\* heart_failure_with_pagerank_nmtf_bpe_34 gives {heart_failure, nmtf, 34}.
C1_ParsesWellFormedNames ==
    /\ (Parsed /\ WellFormed(call.parts)
            /\ call.parts.d # <<>> /\ ~HasLineFeed(call.parts.d))
        => call.ret = DescriptorOf(call.parts)
    /\ (Parsed /\ call.folder_name
                    = HEART_FAILURE \o WITH_PAGERANK \o NMTF \o BPE \o <<"3", "4">>)
        => call.ret = [tag |-> "dict", dataset |-> HEART_FAILURE, method |-> NMTF,
                       topic_count |-> 34]

\* C1 witness: a name whose dataset part itself holds the whole convention,
\* with a leading zero in the count, has been parsed
C1_Witness ==
    /\ Parsed /\ WellFormed(call.parts)
    /\ call.parts.d = <<"a">> \o WITH_PAGERANK \o NMTF \o BPE \o <<"1">>
    /\ call.parts.n.text = <<"0", "7">>
    /\ call.ret = DescriptorOf(call.parts)

(***************************************************************************)
(* Properties of get_topic_count (SpecCount).                              *)
(***************************************************************************)
Counted == call.op = "get_topic_count" /\ call.returned

\* the document has a `relevance` mapping
HasRelevanceMapping(data) ==
    data.kind = "object" /\ data.has_relevance /\ data.relevance.kind = "object"

\* the document has a `gensim.c_v_per_topic` entry
HasCvEntry(data) ==
    data.kind = "object" /\ data.has_gensim /\ data.gensim.kind = "object"
        /\ data.gensim.has_cv

\* the document has a `gensim.c_v_per_topic` mapping
HasCvMapping(data) == HasCvEntry(data) /\ data.gensim.cv.kind = "object"

\* C3: a document with a `relevance` mapping of k >= 1 keys gives k,
\* whatever else the document contains.
C3_RelevanceCount ==
    (Counted /\ HasRelevanceMapping(call.data) /\ call.data.relevance.size >= 1)
        => call.ret = Returned(call.data.relevance.size)

\* C3 witness: a relevance mapping counted next to a c_v_per_topic mapping of
\* another size
C3_Witness ==
    /\ Counted /\ HasRelevanceMapping(call.data) /\ HasCvMapping(call.data)
    /\ call.data.relevance.size = 2 /\ call.data.gensim.cv.size = 3
    /\ call.ret = Returned(2)

\* C4: a document without a `relevance` key and with a
\* `gensim.c_v_per_topic` mapping of k keys gives k.
C4_GensimCount ==
    (Counted /\ call.data.kind = "object" /\ ~call.data.has_relevance
            /\ HasCvMapping(call.data))
        => call.ret = Returned(call.data.gensim.cv.size)

\* C4 witness: a c_v_per_topic mapping of two keys counted, no relevance key
C4_Witness ==
    /\ Counted /\ ~call.data.has_relevance /\ HasCvMapping(call.data)
    /\ call.data.gensim.cv.size = 2
    /\ call.ret = Returned(2)

\* C6: a document with both a `relevance` mapping and a
\* `gensim.c_v_per_topic` mapping gives the size of `relevance`, also when
\* the sizes differ and when `relevance` is empty.
C6_RelevanceFirst ==
    (Counted /\ HasRelevanceMapping(call.data) /\ HasCvMapping(call.data))
        => call.ret = Returned(call.data.relevance.size)

\* C6 witness: an empty relevance mapping next to a non-empty c_v_per_topic
\* mapping gives 0
C6_Witness ==
    /\ Counted /\ HasRelevanceMapping(call.data) /\ HasCvMapping(call.data)
    /\ call.data.relevance.size = 0 /\ call.data.gensim.cv.size >= 1
    /\ call.ret = Returned(0)

(***************************************************************************)
(* Properties of generate_app (SpecApp).                                   *)
(***************************************************************************)
\* generate_app has been called on the source folder, which exists
AppCalled == call.op = "generate_app" /\ call.folder \in source_dir

\* the call was made without the prefix, method and dataset overrides
NoOverrides ==
    ~call.args.prefix.given /\ ~call.args.method.given /\ ~call.args.dataset.given

\* the call got past the folder name: the overrides were given or the name parsed
MetadataKnown ==
    /\ AppCalled
    /\ call.ret.raises # "ValueError: Invalid folder name format"

\* the files of the folder that carry the prefix the call used
PrefixFiles == FilesWithPrefix(call.folder, call.ret.prefix)

\* the call loaded a score document
Loaded == MetadataKnown /\ call.ret.data_file # "None"

LoadedDocument == PrefixFiles[call.ret.data_file]

\* s is <dataset>_with_pagerank_<nmtf|pnmf>_bpe_<digits>, for any dataset
InGrammar(s) ==
    \E i \in 0..Len(s), m \in {NMTF, PNMF} :
        LET j == i + Len(WITH_PAGERANK) + Len(m) + Len(BPE) + 1
        IN  /\ j <= Len(s)
            /\ s = SubSeq(s, 1, i) \o WITH_PAGERANK \o m \o BPE \o SubSeq(s, j, Len(s))
            /\ \A k \in j..Len(s) : IsDigit(s[k])

\* C2 as stated: for every folder name that does not match the grammar,
\* parse_folder_name returns no descriptor and generate_app called without
\* overrides fails with ValueError "Invalid folder name format".
C2_RejectsOtherNames ==
    (AppCalled /\ NoOverrides /\ ~InGrammar(call.folder.name))
        => /\ parse_folder_name(call.folder.name) = NoneValue
           /\ call.ret.raises = "ValueError: Invalid folder name format"

\* C5 as stated: for every document with neither a `relevance` key nor a
\* `gensim.c_v_per_topic` entry, get_topic_count returns 0 and generate_app
\* fails with ValueError "Could not determine topic count from data".
C5_NeitherShapeRejected ==
    (Loaded /\ LoadedDocument.kind = "object" /\ ~LoadedDocument.has_relevance
            /\ ~HasCvEntry(LoadedDocument))
        => /\ get_topic_count(LoadedDocument) = Returned(0)
           /\ call.ret.raises = "ValueError: Could not determine topic count from data"

\* the count the two ordered probes resolve: relevance if the key is there,
\* else gensim.c_v_per_topic
ResolvedSize(data) ==
    IF data.has_relevance THEN data.relevance.size ELSE data.gensim.cv.size

\* C7 as stated: generate_app succeeds only when the topic count is
\* resolvable from exactly one of the two shapes and is greater than 0.
C7_ExactlyOneShape ==
    (Loaded /\ call.ret.raises = "none")
        => /\ HasRelevanceMapping(LoadedDocument) # HasCvMapping(LoadedDocument)
           /\ call.ret.topic_count > 0

\* C7 amended: generate_app succeeds only when the count resolved by the
\* ordered probes (relevance if the key is present, else
\* gensim.c_v_per_topic) is greater than 0; when neither key is present or
\* the resolved count is 0 the call fails and no app is generated; a
\* document with both shapes is resolved from relevance alone and succeeds
\* when relevance is not empty.
C7_OrderedShapes ==
    Loaded =>
        /\ call.ret.raises = "none"
            => /\ call.ret.topic_count > 0
               /\ call.ret.topic_count = ResolvedSize(LoadedDocument)
               /\ call.ret.value \in DOMAIN out_fs
        /\ (\/ ~LoadedDocument.has_relevance /\ ~HasCvEntry(LoadedDocument)
            \/ ResolvedSize(LoadedDocument) = 0)
            => /\ call.ret.raises # "none"
               /\ out_fs = EmptyFs
        /\ (HasRelevanceMapping(LoadedDocument) /\ HasCvMapping(LoadedDocument)
                /\ LoadedDocument.relevance.size > 0)
            => call.ret.raises = "none"

\* C7 witness: an app was generated from a document with both shapes
C7_Witness ==
    /\ Loaded /\ call.ret.raises = "none"
    /\ HasRelevanceMapping(LoadedDocument) /\ HasCvMapping(LoadedDocument)
    /\ call.ret.topic_count = LoadedDocument.relevance.size
    /\ call.ret.value \in DOMAIN out_fs

\* C8: with both files present find_data_file returns coherence_scores; it
\* returns relevance_top_words only when coherence_scores is absent; the
\* returned file is the one the topic count comes from and the one copied
\* to data/coherence_scores.json.
C8_CoherenceFilePrecedence ==
    MetadataKnown =>
        /\ Exists(PrefixFiles.coherence_scores)
            => call.ret.data_file = "coherence_scores"
        /\ call.ret.data_file = "relevance_top_words"
            <=> (~Exists(PrefixFiles.coherence_scores)
                    /\ Exists(PrefixFiles.relevance_top_words))
        /\ call.ret.raises = "none"
            => LET chosen == IF Exists(PrefixFiles.coherence_scores)
                             THEN PrefixFiles.coherence_scores
                             ELSE PrefixFiles.relevance_top_words
               IN  /\ out_fs[call.ret.value].coherence_scores_json = chosen
                   /\ call.ret.topic_count = get_topic_count(chosen).value
                   /\ out_fs[call.ret.value].charts_js.topic_count
                        = get_topic_count(chosen).value

\* C8 witness: both files exist with documents of different counts, and the
\* app was generated from the coherence_scores file
C8_Witness ==
    /\ MetadataKnown /\ call.ret.raises = "none"
    /\ Exists(PrefixFiles.coherence_scores) /\ Exists(PrefixFiles.relevance_top_words)
    /\ get_topic_count(PrefixFiles.coherence_scores) = Returned(2)
    /\ get_topic_count(PrefixFiles.relevance_top_words) = Returned(3)
    /\ call.ret.topic_count = 2
    /\ out_fs[call.ret.value].coherence_scores_json = PrefixFiles.coherence_scores

FailureOutcomes ==
    {"FileNotFoundError: No data file found",
     "ValueError: Could not determine topic count from data",
     "TypeError"}

\* C10: a failure of generate_app for one folder is caught, every later
\* entry of the iteration is still visited, and generate_all_apps returns
\* normally: no exception leaves the loop, no entry is dropped while it
\* runs, and at the return every entry has been visited and every folder
\* that was generated, before or after a failure, is in the returned list.
C10_FailuresDoNotAbort ==
    /\ pc \in {"idle", "loop", "done"}
    /\ pc \in {"loop", "done"}
        => /\ Len(visited) + Len(todo) = Cardinality(source_dir)
           /\ { visited[k].name : k \in 1..Len(visited) }
                \cup { todo[k].name : k \in 1..Len(todo) }
                = { f.name : f \in source_dir }
           /\ Len(generated)
                = Cardinality({ k \in 1..Len(visited) : visited[k].outcome = "generated" })
    /\ pc = "done" => todo = <<>>

\* C10 witness: the run returned after a folder that failed was followed by
\* a folder that was generated
C10_Witness ==
    /\ pc = "done"
    /\ \E i, j \in 1..Len(visited) :
        /\ i < j
        /\ visited[i].outcome \in FailureOutcomes
        /\ visited[j].outcome = "generated"
        /\ Len(generated) >= 1

\* what the loop does with one entry, taken by itself
OutcomeAlone(folder) ==
    IF ~folder.is_dir THEN "not a directory"
    ELSE IF parse_folder_name(folder.name) = NoneValue THEN "no metadata"
    ELSE LET output == generate_app(TRUE, folder, DefaultArgs)
         IN  IF output.raises = "none" THEN "generated" ELSE output.raises

EntryNamed(name) == CHOOSE f \in source_dir : f.name = name

\* the visits of folders that were abandoned because generate_app raised
FailedVisits == { k \in 1..Len(visited) : visited[k].outcome \in FailureOutcomes }

\* the visits of folders that were abandoned because their name did not parse
UnparsedVisits == { k \in 1..Len(visited) : visited[k].outcome = "no metadata" }

IsReported(k) ==
    \E i \in 1..Len(printed) :
        printed[i] = [name |-> visited[k].name, error |-> visited[k].outcome]

\* C11 as stated: every folder whose processing is abandoned, because its
\* name does not parse or because generate_app failed on its score document,
\* is reported with a per-folder error message.
C11_EveryAbandonedFolderReported ==
    \A k \in FailedVisits \cup UnparsedVisits :
        \E i \in 1..Len(printed) : printed[i].name = visited[k].name

\* C11 amended: every folder whose name parses and whose generate_app call
\* fails (no data file, zero topic count, or any other exception) is
\* reported with one message that names the folder and the error; a folder
\* whose name does not parse is skipped without any message; and what
\* happens to an entry is what would happen to it alone, whatever its
\* siblings are.
C11_FailedFoldersReported ==
    /\ \A k \in FailedVisits : IsReported(k)
    /\ Len(printed) = Cardinality(FailedVisits)
    /\ \A k \in UnparsedVisits, i \in 1..Len(printed) : printed[i].name # visited[k].name
    /\ \A k \in 1..Len(visited) : visited[k].outcome = OutcomeAlone(EntryNamed(visited[k].name))

\* C11 witness: the run returned after a folder with an unparsable name was
\* skipped and a folder without a usable score document was reported
C11_Witness ==
    /\ pc = "done"
    /\ UnparsedVisits # {}
    /\ \E k \in FailedVisits :
        /\ visited[k].outcome = "FileNotFoundError: No data file found"
        /\ IsReported(k)
    /\ Len(printed) = 1

(***************************************************************************)
(* Properties of the generated files (SpecArtifacts).                      *)
(***************************************************************************)
\* generate_app returned an output path
Succeeded == AppCalled /\ call.ret.raises = "none"

\* the output directory the call wrote
App == out_fs[call.ret.value]

\* the topic count of the folder's name
NameCount == parse_folder_name(call.folder.name).topic_count

\* the topic count of the score document the call loaded
DocumentCount == get_topic_count(LoadedDocument).value

EndsWith(s, t) == Len(t) <= Len(s) /\ SubSeq(s, Len(s) - Len(t) + 1, Len(s)) = t

\* C12: the topic count of the folder name is overwritten by the count k
\* derived from the JSON document before it is used: the output directory
\* name, index.html, topic-graph.html and the chart palette are all made from
\* k, and when the name says N # k none of them is made from N.
C12_DocumentCountUsed ==
    (Succeeded /\ NoOverrides) =>
        /\ call.ret.metadata.topic_count = DocumentCount
        /\ ~call.args.output_dir.given
            => /\ EndsWith(call.ret.value, <<"-">> \o StrOf(DocumentCount))
               /\ NameCount # DocumentCount
                    => ~EndsWith(call.ret.value, <<"-">> \o StrOf(NameCount))
        /\ App.index_html.topic_count = DocumentCount
        /\ App.topic_graph_html.written
            => App.topic_graph_html.topic_count = DocumentCount
        /\ App.charts_js = generate_charts_js(DocumentCount)
        /\ generate_charts_js(NameCount) # generate_charts_js(DocumentCount)
            => App.charts_js # generate_charts_js(NameCount)

\* C12 witness: a folder named ..._bpe_34 whose document has 2 topics was
\* generated, with topic-graph.html, into a directory named after 2
C12_Witness ==
    /\ Succeeded /\ NoOverrides /\ ~call.args.output_dir.given
    /\ NameCount = ExampleCount /\ DocumentCount = 2
    /\ call.ret.value
        = BASE_DIR \o <<"h", "e", "a", "r", "t", "-", "f", "a", "i", "l", "u", "r", "e",
                        "-", "p", "n", "m", "f", "-", "2">>
    /\ App.topic_graph_html.written /\ App.topic_graph_html.topic_count = 2
    /\ App.index_html.topic_count = 2
    /\ Len(App.charts_js.colors) = MinColors

HEART_FAILURE_NMTF_34 ==
    <<"h", "e", "a", "r", "t", "-", "f", "a", "i", "l", "u", "r", "e",
      "-", "n", "m", "t", "f", "-", "3", "4">>

\* C13: without output_dir the output directory is named
\* <dataset with every underscore replaced by a dash>-<method>-<topic_count>
\* with the topic count of the JSON document in decimal; every other
\* character of the dataset is kept in its place.
C13_OutputDirName ==
    (Succeeded /\ ~Truthy(call.args.output_dir)) =>
        LET name == SubSeq(call.ret.value, Len(BASE_DIR) + 1, Len(call.ret.value))
            dataset == call.ret.metadata.dataset
            method == call.ret.metadata.method
            d == Len(dataset)
            m == Len(method)
            digits == SubSeq(name, d + m + 3, Len(name))
        IN  /\ call.ret.value = BASE_DIR \o name
            /\ Len(name) >= d + m + 3
            /\ \A i \in 1..d :
                    name[i] = IF dataset[i] = "_" THEN "-" ELSE dataset[i]
            /\ name[d + 1] = "-"
            /\ SubSeq(name, d + 2, d + m + 1) = method
            /\ name[d + m + 2] = "-"
            /\ \A i \in 1..Len(digits) : IsDigit(digits[i])
            /\ digits[1] # "0"
            /\ IntOf(digits) = DocumentCount

\* C13 witness: heart_failure_with_pagerank_nmtf_bpe_34 with a document of
\* 34 topics was generated into heart-failure-nmtf-34
C13_Witness ==
    /\ Succeeded /\ call.args.output_dir = NoArg /\ NoOverrides
    /\ call.folder.name = HF_NMTF_34
    /\ DocumentCount = ExampleCount
    /\ call.ret.value = BASE_DIR \o HEART_FAILURE_NMTF_34
    /\ call.ret.value \in DOMAIN out_fs

\* what every generated app holds
RequiredPaths ==
    {"css/styles.css", "js/topics.js", "js/charts.js", "js/app.js",
     "data/coherence_scores.json", "images/wordclouds", "index.html"}

\* the paths that lie inside css/, js/, data/ or images/
InsideDirs ==
    {"css/styles.css", "js/topics.js", "js/charts.js", "js/app.js",
     "data/coherence_scores.json", "data/diversity_scores.json", "data/top_docs.json",
     "images/wordclouds", "images/document_dist.png", "images/temporal_line.png",
     "images/temporal_area.png", "images/yearly_dist.png", "images/tsne.png",
     "images/umap.png", "images/wordclouds/Topic 1.png", "images/wordclouds/Topic 2.png"}

\* the files directly in the output directory
TopLevelPages(app) == Paths(app) \ ({"css", "js", "data", "images"} \cup InsideDirs)

\* C14: after every successful generate_app call the output directory holds
\* css/styles.css, js/topics.js, js/charts.js, js/app.js,
\* data/coherence_scores.json, images/wordclouds/ and index.html, whatever
\* optional artifacts the source folder has; its top-level files are
\* index.html and possibly topic-graph.html and violin-plot.html.
C14_RequiredFiles ==
    Succeeded =>
        /\ RequiredPaths \subseteq Paths(App)
        /\ {"css", "js", "data", "images"} \subseteq Paths(App)
        /\ "index.html" \in TopLevelPages(App)
        /\ TopLevelPages(App) \subseteq {"index.html", "topic-graph.html", "violin-plot.html"}

\* C14 witness: a folder without any optional artifact was generated; the
\* output holds the required paths and neither optional page
C14_Witness ==
    /\ Succeeded /\ call.folder.files = {}
    /\ Paths(App) = RequiredPaths \cup {"css", "js", "data", "images"}
    /\ TopLevelPages(App) = {"index.html"}

\* the file <prefix><rest> of the source folder, for the prefix the call used
Prefixed(rest) == File(PrefixKey(call.folder, call.ret.prefix), rest)

Has(file) == file \in call.folder.files

\* the destination holds a copy of the file
CopiedTo(dest, file) == dest \in DOMAIN App.copied /\ App.copied[dest] = file

\* the artifacts with one source name, and their destinations
SingleSources ==
    { <<"_diversity_scores.json", "data/diversity_scores.json">>,
      <<"_top_docs.json", "data/top_docs.json">>,
      <<"_document_dist.png", "images/document_dist.png">>,
      <<"_temporal_topic_dist_quarter_line.png", "images/temporal_line.png">>,
      <<"_temporal_topic_dist_quarter_stacked_area.png", "images/temporal_area.png">>,
      <<"_topic_distribution_by_year.png", "images/yearly_dist.png">> }

TsneSources == { Prefixed("_tsne_visualization.png"), Prefixed("_tsne.png"), Loose("tsne.png") }

UmapSources ==
    { File(k, rest) : k \in {"own", "other"},
                      rest \in {"_umap_visualization.png", "_umap.png"} }

ViolinSources == { File(k, "_violin_interactive.html") : k \in {"own", "other"} }

OptionalDestinations ==
    { a[2] : a \in SingleSources }
        \cup {"images/tsne.png", "images/umap.png", "violin-plot.html",
               "images/wordclouds/Topic 1.png", "images/wordclouds/Topic 2.png"}

C16_TabsOnlyForWrittenPages ==
    Succeeded =>
        /\ ("graph" \in App.index_html.tabs \/ "topic-graph.html" \in App.index_html.iframes)
            => App.topic_graph_html.written
        /\ ("violin" \in App.index_html.tabs \/ "violin-plot.html" \in App.index_html.iframes)
            => "violin-plot.html" \in DOMAIN App.copied

\* the visits that ended with a generated app
GeneratedVisits == { k \in 1..Len(visited) : visited[k].outcome = "generated" }

\* what generate_app gives for an entry processed alone
Alone(name) == generate_app(TRUE, EntryNamed(name), DefaultArgs)

\* C17: no folder's processing writes into the output directory of another
\* folder: two distinct folders that both succeed never have the same
\* output directory, and the files of each generated folder are those it
\* gets when processed alone, whatever was processed before or after it.
C17_NoSharedOutput ==
    /\ \A i, j \in 1..Len(generated) : i # j => generated[i] # generated[j]
    /\ \A k \in GeneratedVisits :
            out_fs[Alone(visited[k].name).value] = Alone(visited[k].name).app

(***************************************************************************)
(* Totality of get_topic_count (SpecCount).                                *)
(***************************************************************************)
\* C18: for every loaded JSON document, also one whose `relevance` or
\* `gensim` value is no mapping and one that is no object, get_topic_count
\* returns a count (0 when no shape is found, which the caller turns into
\* the missing-data error) and never fails in any other way.
C18_ExtractorTotal ==
    Counted => /\ call.ret.raises = "none"
               /\ call.ret.value \in 0..MaxKeys

(***************************************************************************)
(* What a call leaves alone (SpecFrame).                                   *)
(***************************************************************************)
\* the output directory the step wrote, if it wrote one
StepOutput ==
    IF call' # call /\ call'.ret.raises = "none" THEN { call'.ret.value }
    ELSE IF generated' # generated THEN { generated'[Len(generated')] }
    ELSE {}

\* no output directory but the one the step wrote has changed
OtherOutputsKept ==
    /\ DOMAIN out_fs \subseteq DOMAIN out_fs'
    /\ DOMAIN out_fs' \subseteq DOMAIN out_fs \cup StepOutput
    /\ \A p \in DOMAIN out_fs : out_fs'[p] # out_fs[p] => p \in StepOutput

RECURSIVE PathsOfValidFolders(_)
\* the output paths of the entries, in their order, that are directories,
\* have a name of the grammar, and for which generate_app succeeds
PathsOfValidFolders(entries) ==
    IF entries = <<>> THEN <<>>
    ELSE LET folder == Head(entries)
             output == generate_app(TRUE, folder, DefaultArgs)
         IN  (IF folder.is_dir /\ InGrammar(folder.name) /\ output.raises = "none"
              THEN << output.value >> ELSE <<>>)
                \o PathsOfValidFolders(Tail(entries))

\* C20: generate_all_apps returns the output paths of exactly the entries
\* that are directories, whose names match the naming grammar and for which
\* generate_app succeeded, one per folder, in ascending order of the entry
\* names; files, other folders and failed folders contribute nothing.
C20_ReturnsValidFolders ==
    pc = "done" => generated = PathsOfValidFolders(SortedEntries(source_dir))

(***************************************************************************)
(* The arguments of generate_app (SpecArgs).                               *)
(***************************************************************************)
\* the name generate_app makes up for the output directory
GeneratedName == generate_output_dir_name(call.ret.metadata)

\* C21: when generate_app is given an output_dir (a non-empty string) the
\* app is written to that directory and to no other, the path being
\* output_dir itself when it is absolute and BASE_DIR/output_dir when it is
\* relative, and that path is returned; the generated name is used only when
\* no output_dir is provided (None, or the empty string, which the code
\* treats alike), and the directory is then BASE_DIR/<generated name>.
C21_NonEmptyOutputDirUsed ==
    Succeeded =>
        LET text == call.args.output_dir.text
        IN  /\ (call.args.output_dir.given /\ text # <<>>)
                => /\ call.ret.value = IF text[1] = "/" THEN text ELSE BASE_DIR \o text
                   /\ call.ret.value # BASE_DIR \o GeneratedName
            /\ (~call.args.output_dir.given \/ text = <<>>)
                => call.ret.value = BASE_DIR \o GeneratedName
            /\ DOMAIN out_fs = {call.ret.value}

\* C21 witness: a call with the absolute output_dir /tmp/out has written its
\* app there and returned that path
C21_Witness ==
    /\ Succeeded
    /\ call.args.output_dir = Arg(ABS_OUT)
    /\ call.ret.value = ABS_OUT
    /\ DOMAIN out_fs = {ABS_OUT}
    /\ out_fs[ABS_OUT].written

\* the prefix, method and dataset arguments are all given and not empty
OverridesUsed ==
    Truthy(call.args.prefix) /\ Truthy(call.args.method) /\ Truthy(call.args.dataset)

\* the descriptor parse_folder_name returns for the folder of the call
ParsedDescriptor == parse_folder_name(call.folder.name)

EarlyErrors ==
    {"ValueError: Invalid folder name format",
     "FileNotFoundError: No data file found",
     "ValueError: Could not determine topic count from data"}

\* the step is a call of generate_app that failed with one of the three
FailedEarly ==
    \/ call' # call /\ call'.ret.raises \in EarlyErrors
    \/ /\ printed' # printed
       /\ printed'[Len(printed')].error \in EarlyErrors

\* C23: a generate_app call that fails with the format error, the missing
\* data file error or the zero topic count error leaves the file system as
\* it was: no output directory is made or changed, and the source is as before.
C23_FailedCallWritesNothing ==
    [][FailedEarly => (out_fs' = out_fs /\ source_dir' = source_dir)]_vars

\* C23 witness: after an app was generated, a call on the same folder under
\* another prefix failed for want of a data file, and the one output
\* directory is all there is
C23_Witness ==
    /\ call.op = "generate_app"
    /\ call.ret.raises = "FileNotFoundError: No data file found"
    /\ Len(generated) = 1
    /\ DOMAIN out_fs = { generated[1] }
    /\ out_fs[generated[1]].written

(***************************************************************************)
(* The palette of charts.js (SpecCharts).                                  *)
(***************************************************************************)
PaletteOf(topic_count, colors) ==
    /\ Len(colors) = (IF topic_count > MinColors THEN topic_count ELSE MinColors)
    /\ \A i \in 0..(Len(colors) - 1) : colors[i + 1] = BasePalette[(i % BaseColors) + 1]
    /\ \A i \in 0..(topic_count - 1) : i + 1 \in DOMAIN colors

\* C24: for every topic_count >= 0 the loop that extends the colors comes to
\* an end, and the colors written are max(topic_count, 25) entries of which
\* entry i is entry i mod 45 of the 45 base colors, so that every topic index
\* below topic_count has a color; generate_app writes the same charts.js.
C24_PaletteCyclesAndTerminates ==
    /\ [](call.returned =>
            /\ PaletteOf(call.topic_count, call.ret.colors)
            /\ call.ret = generate_charts_js(call.topic_count))
    /\ <>call.returned

\* C24 witness: the largest topic count took two rounds of the loop, and its
\* last color is a base color met for the third time
C24_Witness ==
    /\ call.op = "generate_charts_js" /\ call.returned
    /\ call.topic_count = MaxTopics
    /\ Len(call.base_colors) = 4 * BaseColors
    /\ Len(call.ret.colors) = MaxTopics
    /\ call.ret.colors[MaxTopics] = (MaxTopics - 1) % BaseColors
    /\ MaxTopics - 1 >= 2 * BaseColors

(***************************************************************************)
(* Regeneration into the same output directory (SpecRegen).                *)
(***************************************************************************)
\* C25: after a successful call the output directory holds an optional
\* artifact only if the source folder had the corresponding artifact at the
\* time of that call, whatever calls were made into the directory before.
C25_OnlySourceArtifacts ==
    Succeeded =>
        /\ \A a \in SingleSources :
            a[2] \in DOMAIN App.copied => Has(Prefixed(a[1]))
        /\ "images/tsne.png" \in DOMAIN App.copied => \E f \in TsneSources : Has(f)
        /\ "images/umap.png" \in DOMAIN App.copied => \E f \in UmapSources : Has(f)
        /\ "violin-plot.html" \in DOMAIN App.copied => \E f \in ViolinSources : Has(f)
        /\ \A n \in {"Topic 1.png", "Topic 2.png"} :
            ("images/wordclouds/" \o n) \in DOMAIN App.copied => Has(InWordclouds(n))
        /\ App.topic_graph_html.written
            => Has(Prefixed("_temporal_topic_dist_quarter.csv"))

(***************************************************************************)
(* The prefix, method and dataset arguments (SpecArgs).                    *)
(***************************************************************************)
\* the files of the call's folder that a call working under prefix reads
\* and writes: its score document, and its prefixed artifacts
UsesPrefix(prefix) ==
    /\ call.ret.prefix = prefix
    /\ call.ret.data_file = find_data_file(call.folder, prefix)
    /\ call.ret.raises = "none" =>
        /\ App.coherence_scores_json
            = load_topic_data(call.folder, prefix, find_data_file(call.folder, prefix))
        /\ \A a \in SingleSources :
            LET file == File(PrefixKey(call.folder, prefix), a[1])
            IN  IF Has(file) THEN CopiedTo(a[2], file)
                ELSE a[2] \notin DOMAIN App.copied
        /\ LET csv == File(PrefixKey(call.folder, prefix),
                           "_temporal_topic_dist_quarter.csv")
           IN  IF Has(csv) THEN App.topic_graph_html.written
                                /\ App.topic_graph_html.csv = csv
               ELSE ~App.topic_graph_html.written

\* C26: with prefix, method and dataset all provided the folder name is not
\* parsed and need not match the grammar, the descriptor holds the provided
\* method and dataset, and the provided prefix selects the data file and the
\* artifacts; with any one of them missing the name must parse, else the
\* format error is raised, the method and the dataset are the parsed ones
\* and the prefix is the folder name, whatever was provided.
C26_OverridesAllOrNothing ==
    AppCalled =>
        IF Truthy(call.args.prefix) /\ Truthy(call.args.method)
            /\ Truthy(call.args.dataset)
        THEN /\ call.ret.raises # "ValueError: Invalid folder name format"
             /\ call.ret.metadata.method = call.args.method.text
             /\ call.ret.metadata.dataset = call.args.dataset.text
             /\ UsesPrefix(call.args.prefix.text)
        ELSE IF ParsedDescriptor = NoneValue
        THEN call.ret.raises = "ValueError: Invalid folder name format"
        ELSE /\ call.ret.raises # "ValueError: Invalid folder name format"
             /\ call.ret.metadata.method = ParsedDescriptor.method
             /\ call.ret.metadata.dataset = ParsedDescriptor.dataset
             /\ UsesPrefix(call.folder.name)

\* C26 witness: a folder whose name is outside the grammar was generated
\* from under the three overrides, with the files of the provided prefix
C26_Witness ==
    /\ Succeeded
    /\ call.folder.name = STUDY_PNMF_10 /\ ParsedDescriptor = NoneValue
    /\ call.ret.prefix = OtherPrefix /\ call.ret.metadata.method = LDA
    /\ CopiedTo("data/top_docs.json", File("other", "_top_docs.json"))
    /\ "data/diversity_scores.json" \notin DOMAIN App.copied
    /\ Has(File("own", "_diversity_scores.json"))

\* C26 witness, second half: the prefix and the dataset were provided
\* without the method, and the call went by the folder name
C26_WitnessIgnored ==
    /\ Succeeded
    /\ Truthy(call.args.prefix) /\ Truthy(call.args.dataset) /\ ~call.args.method.given
    /\ call.ret.prefix = call.folder.name /\ call.ret.prefix # call.args.prefix.text
    /\ call.ret.metadata.dataset # call.args.dataset.text
    /\ CopiedTo("data/diversity_scores.json", File("own", "_diversity_scores.json"))

(***************************************************************************)
(* The t-SNE image (SpecArtifacts).                                        *)
(***************************************************************************)
\* C27: images/tsne.png is a copy of the first that exists of
\* <prefix>_tsne_visualization.png, <prefix>_tsne.png and tsne.png, in that
\* order; none of the three is copied anywhere else; and when none of them
\* exists there is no images/tsne.png and the call succeeds all the same.
C27_TsnePriority ==
    (AppCalled /\ call.folder \in ArtifactFolders) =>
        /\ call.ret.raises = "none"
        /\ IF Has(Prefixed("_tsne_visualization.png"))
           THEN CopiedTo("images/tsne.png", Prefixed("_tsne_visualization.png"))
           ELSE IF Has(Prefixed("_tsne.png"))
           THEN CopiedTo("images/tsne.png", Prefixed("_tsne.png"))
           ELSE IF Has(Loose("tsne.png"))
           THEN CopiedTo("images/tsne.png", Loose("tsne.png"))
           ELSE "images/tsne.png" \notin DOMAIN App.copied
        /\ \A dest \in DOMAIN App.copied \ {"images/tsne.png"} :
            App.copied[dest] \notin TsneSources

\* C27 witness: the folder holds the three images and the first was copied
C27_Witness ==
    /\ Succeeded /\ NoOverrides
    /\ TsneSources \subseteq call.folder.files
    /\ Cardinality(TsneSources) = 3
    /\ App.copied["images/tsne.png"] = File("own", "_tsne_visualization.png")

\* C27, the other case met: a folder with none of the three was generated
\* from, without images/tsne.png
C27_WitnessNone ==
    /\ Succeeded
    /\ TsneSources \cap call.folder.files = {}
    /\ "images/tsne.png" \notin DOMAIN App.copied
    /\ App.index_html.topic_count = call.ret.topic_count

(***************************************************************************)
(* Missing source locations (SpecMissing).                                 *)
(***************************************************************************)
\* C28: generate_app on a source folder that does not exist raises
\* FileNotFoundError without parsing the folder name, so that a name outside
\* the grammar gives this error and not the format error; generate_all_apps
\* on a source directory that does not exist raises FileNotFoundError,
\* returns no list, visits no folder and writes nothing.
C28_MissingSourceRaises ==
    /\ (call.op = "generate_app" /\ call.folder = MissingFolder) =>
            /\ call.ret.raises = "FileNotFoundError: Source folder not found"
            /\ call.ret.metadata = NoneValue
            /\ call.ret.app = NoApp
            /\ \A p \in DOMAIN out_fs : \E k \in 1..Len(generated) : generated[k] = p
    /\ (call.op = "generate_all_apps" /\ ~DirExists(call.source_dir, out_fs)) =>
            /\ call.ret.raises = "FileNotFoundError: Source directory not found"
            /\ call.ret.value = NoneValue
            /\ pc = "raised"
            /\ todo = <<>> /\ visited = <<>> /\ generated = <<>> /\ printed = <<>>
            /\ out_fs = EmptyFs
    /\ pc = "raised" => call.op = "generate_all_apps"

\* C28 witness: generate_all_apps was called on a path that does not exist
\* while the default source directory held a folder it could have generated
C28_Witness ==
    /\ pc = "raised"
    /\ call.op = "generate_all_apps" /\ call.source_dir = NOWHERE
    /\ call.ret.raises = "FileNotFoundError: Source directory not found"
    /\ \E f \in source_dir :
        f.is_dir /\ generate_app(TRUE, f, DefaultArgs).raises = "none"

\* C28, the other case met: generate_app was called on a folder that does
\* not exist and whose name is outside the grammar
C28_WitnessFolder ==
    /\ call.op = "generate_app" /\ call.folder = MissingFolder
    /\ call.args = DefaultArgs
    /\ parse_folder_name(call.folder.name) = NoneValue
    /\ call.ret.raises = "FileNotFoundError: Source folder not found"

====
